---- MODULE Spec2Model ----
(***************************************************************************)
(* STM32L476RG ADC polling firmware (src/src/main.cpp): main, adc_init and *)
(* adc_read as a program-counter state machine over the ADC1 / RCC         *)
(* registers, together with the ADC hardware that answers the register     *)
(* writes (disable, calibration, ready, end of conversion).                *)
(*                                                                         *)
(* pc labels are the source line numbers of main.cpp ("L92" is line 92).   *)
(* Registers whose bits the code only sets, clears and tests one by one    *)
(* (CR, ISR, AHB2ENR, CCIPR) are sets of CMSIS bit names; registers with   *)
(* multi-bit fields (CCR, CFGR, SMPR1, SQR1, DR) are integers.             *)
(***************************************************************************)
EXTENDS Integers, Sequences, FiniteSets, TLC

(***************************************************************************)
(* Bounds of the model                                                     *)
(***************************************************************************)
\* main loop iterations explored (the loop of line 49 is endless)
MaxIter == 2
\* largest sample value framed by FrameSpec (12-bit samples)
SampleMax == 4095

(***************************************************************************)
(* Program constants                                                       *)
(***************************************************************************)
ADC_CHANNEL == 5
SAMP_TIME == 0
SAMP_RATE == 100
SAMP_PERIOD == 1000000 \div SAMP_RATE
SETTLE_LOOPS == 1000
SYNC_BYTE == 170
\* CMSIS masks used by the code (stm32l476xx.h)
ADC_CCR_PRESC == 3932160
ADC_CCR_PRESC_2 == 1048576
ADC_CFGR_CONT == 8192
ADC_CFGR_RES == 24
ADC_CFGR_ALIGN == 32
ADC_SQR1_L == 15
SQ1_FIELD == 31
SQ1_POS == 6
SQ2_POS == 12
ALIGN_SHIFT == 4
SMP_WIDTH == 3
SMP_FIELD == 7
UINT16_MOD == 65536
UINT8_MOD == 256

(***************************************************************************)
(* C bit operators on non-negative integers                                *)
(***************************************************************************)
RECURSIVE BitOr(_, _)
\* a | b
BitOr(a, b) ==
  IF a = 0 THEN b
  ELSE IF b = 0 THEN a
  ELSE (IF a % 2 = 1 \/ b % 2 = 1 THEN 1 ELSE 0) + 2 * BitOr(a \div 2, b \div 2)

RECURSIVE BitAnd(_, _)
\* a & b
BitAnd(a, b) ==
  IF a = 0 \/ b = 0 THEN 0
  ELSE (IF a % 2 = 1 /\ b % 2 = 1 THEN 1 ELSE 0) + 2 * BitAnd(a \div 2, b \div 2)

RECURSIVE BitAndNot(_, _)
\* a & ~m
BitAndNot(a, m) ==
  IF a = 0 THEN 0
  ELSE (IF a % 2 = 1 /\ m % 2 = 0 THEN 1 ELSE 0) + 2 * BitAndNot(a \div 2, m \div 2)

RECURSIVE Pow2(_)
Pow2(n) == IF n = 0 THEN 1 ELSE 2 * Pow2(n - 1)

\* v << n
Shl(v, n) == v * Pow2(n)

\* v >> n
Shr(v, n) == v \div Pow2(n)

\* the field of register value v selected by mask, shifted down by pos
Field(v, mask, pos) == Shr(BitAnd(v, mask), pos)

\* position of the sample-time field of a channel in SMPR1 (ADC_CHANNEL * 3)
SmpPos(ch) == ch * SMP_WIDTH

VARIABLES
  pc,         \* line of main.cpp about to execute
  AHB2ENR,    \* RCC->AHB2ENR: set of enable bits that are 1
  CCIPR,      \* RCC->CCIPR: set of bits that are 1
  GPIOA,      \* PA0 configuration: MODER and ASCR fields of pin 0
  CCR,        \* ADC123_COMMON->CCR
  CR,         \* ADC1->CR: set of bits that are 1
  ISR,        \* ADC1->ISR: set of flags that are 1
  CFGR,       \* ADC1->CFGR
  SMPR1,      \* ADC1->SMPR1
  SQR1,       \* ADC1->SQR1
  DR,         \* ADC1->DR
  hwRdy,      \* hardware: the enabled converter has reached its ready state
  i,          \* loop counter of the settle delay (line 90)
  isrTmp,     \* value read from ISR by the read-modify-write of line 122
  channel,    \* argument of adc_read
  sample,     \* main's sample variable
  out,        \* bytes written to Serial, in order
  serialUp,   \* Serial.begin has run
  pinModes,   \* pinMode of PIN_SAMPLE / PIN_SERIAL
  pinLevel,   \* level of PIN_SAMPLE / PIN_SERIAL
  lastDelay,  \* argument of the last delayMicroseconds call
  iter,       \* completed main loop iterations
  acc,        \* the register access made by the step that led to this state
  seen,       \* wait conditions adc_init has observed satisfied
  adenOnEntry,\* what the test of line 81 read
  disReq,     \* line 82 has requested a disable
  calDone,    \* hardware has completed a calibration since reset
  eocAck,     \* the current adc_read call has written the EOC acknowledge
  started,    \* the current adc_read call has written ADSTART
  fresh,      \* hardware has completed a conversion since the last ADSTART write
  convVal,    \* DR content latched by the latest conversion
  samples     \* values returned by adc_read, in call order

sysv == <<AHB2ENR, CCIPR, GPIOA>>
cfgv == <<CCR, CFGR, SMPR1, SQR1>>
dynv == <<CR, ISR, DR, hwRdy>>
swv == <<i, isrTmp, channel, sample>>
iov == <<out, serialUp, pinModes, pinLevel, lastDelay>>
initg == <<seen, adenOnEntry, disReq, calDone>>
callg == <<eocAck, started, fresh, convVal, samples, iter>>
vars == <<pc, acc, sysv, cfgv, dynv, swv, iov, initg, callg>>

(***************************************************************************)
(* Register accesses                                                       *)
(***************************************************************************)
\* op is "r", "w" or "rw"; bits names the bits or fields the statement's mask selects
Acc(reg, op, bits) == [reg |-> reg, op |-> op, bits |-> bits]
NoAcc == Acc("none", "none", {})
ADCRegs == {"CCR", "CR", "ISR", "CFGR", "SMPR1", "SQR1", "DR"}
Writes(a) == a.op \in {"w", "rw"}

\* one software step from line `from` to line `to` making access a
Step(from, to, a) == pc = from /\ pc' = to /\ acc' = a

(***************************************************************************)
(* Initial states: the peripheral as main may find it.  Either the reset   *)
(* state (deep power down, clock off, every register at its reset value),  *)
(* or left configured by earlier code: regulator on, enabled or not,       *)
(* sticky flags set or not, mode fields dirty.                             *)
(***************************************************************************)
ResetCR == {"DEEPPWD"}
InitCR == {ResetCR, {"ADVREGEN"}, {"ADVREGEN", "ADEN"}}
InitISR == {{}, {"ADRDY"}, {"EOC", "EOS"}, {"ADRDY", "EOC", "EOS"}}
InitCFGR == {0, ADC_CFGR_CONT + ADC_CFGR_RES, ADC_CFGR_ALIGN + ADC_CFGR_CONT + 8}
InitSMPR1 == {0, Shl(SMP_FIELD, SmpPos(ADC_CHANNEL))}
InitSQR1 == {0, 3 + Shl(9, SQ1_POS) + Shl(7, SQ2_POS)}
InitCCR == {0, Shl(11, 18)}
\* 12-bit conversion results the hardware may deliver
RawData == {0, 2048, 4095}
\* channel arguments of the driver harness (uint8_t)
Channels == {0, ADC_CHANNEL, 31, 37}

Init ==
  /\ pc = "L30"
  /\ acc = NoAcc
  /\ CR \in InitCR
  /\ ISR \in (IF CR = ResetCR THEN {{}} ELSE InitISR)
  /\ CFGR \in (IF CR = ResetCR THEN {0} ELSE InitCFGR)
  /\ SMPR1 \in (IF CR = ResetCR THEN {0} ELSE InitSMPR1)
  /\ SQR1 \in (IF CR = ResetCR THEN {0} ELSE InitSQR1)
  /\ CCR \in (IF CR = ResetCR THEN {0} ELSE InitCCR)
  /\ AHB2ENR = IF CR = ResetCR THEN {} ELSE {"ADCEN"}
  /\ CCIPR = {}
  /\ GPIOA = [MODER0 |-> 3, ASC0 |-> 0]
  /\ DR = IF "EOC" \in ISR THEN 1234 ELSE 0
  /\ hwRdy = ("ADEN" \in CR)
  /\ i = 0
  /\ isrTmp = {}
  /\ channel = 0
  /\ sample = 0
  /\ out = <<>>
  /\ serialUp = FALSE
  /\ pinModes = [p \in {"D3", "D4"} |-> "INPUT"]
  /\ pinLevel = [p \in {"D3", "D4"} |-> "LOW"]
  /\ lastDelay = 0
  /\ iter = 0
  /\ seen = {}
  /\ adenOnEntry = FALSE
  /\ disReq = FALSE
  /\ calDone = FALSE
  /\ eocAck = FALSE
  /\ started = FALSE
  /\ fresh = FALSE
  /\ convVal = 0
  /\ samples = <<>>

(***************************************************************************)
(* ADC hardware: the transitions the firmware's busy-waits wait for        *)
(***************************************************************************)
\* a disable request is honoured: ADEN and ADDIS are cleared (awaited at line 83)
HwDisable ==
  /\ "ADDIS" \in CR /\ "ADEN" \in CR
  /\ CR' = CR \ {"ADDIS", "ADEN"}
  /\ hwRdy' = FALSE
  /\ acc' = NoAcc
  /\ UNCHANGED <<pc, sysv, cfgv, ISR, DR, swv, iov, initg, callg>>

\* calibration completes: ADCAL is cleared by hardware (awaited at line 93)
HwCalDone ==
  /\ "ADCAL" \in CR
  /\ CR' = CR \ {"ADCAL"}
  /\ calDone' = TRUE
  /\ acc' = NoAcc
  /\ UNCHANGED <<pc, sysv, cfgv, ISR, DR, hwRdy, swv, iov, seen, adenOnEntry, disReq, callg>>

\* the enabled converter becomes ready and raises ADRDY (awaited at line 108)
HwReady ==
  /\ "ADEN" \in CR /\ "ADDIS" \notin CR /\ ~hwRdy
  /\ hwRdy' = TRUE
  /\ ISR' = ISR \cup {"ADRDY"}
  /\ acc' = NoAcc
  /\ UNCHANGED <<pc, sysv, cfgv, CR, DR, swv, iov, initg, callg>>

\* the data the hardware puts in DR for raw result d: left-aligned if CFGR.ALIGN
ConvResult(d) ==
  IF BitAnd(CFGR, ADC_CFGR_ALIGN) # 0 THEN Shl(d, ALIGN_SHIFT) ELSE d

\* a started conversion completes: DR is loaded, EOC (and EOS, the sequence
\* has one entry) are raised, and ADSTART is cleared in single-shot mode
\* (awaited at line 124)
HwConvDone ==
  /\ "ADSTART" \in CR /\ "ADEN" \in CR /\ hwRdy
  /\ \E d \in RawData :
       /\ DR' = ConvResult(d)
       /\ convVal' = ConvResult(d)
  /\ ISR' = ISR \cup {"EOC", "EOS"}
  /\ CR' = IF BitAnd(CFGR, ADC_CFGR_CONT) # 0 THEN CR ELSE CR \ {"ADSTART"}
  /\ fresh' = TRUE
  /\ acc' = NoAcc
  /\ UNCHANGED <<pc, sysv, cfgv, hwRdy, swv, iov, initg, eocAck, started, samples, iter>>

Hardware == HwDisable \/ HwCalDone \/ HwReady \/ HwConvDone

(***************************************************************************)
(* main: setup (lines 30-43)                                               *)
(***************************************************************************)
\* init(); Serial.begin(BAUD_RATE)
MainSetup ==
  /\ Step("L30", "L34", NoAcc)
  /\ serialUp' = TRUE
  /\ UNCHANGED <<sysv, cfgv, dynv, swv, out, pinModes, pinLevel, lastDelay, initg, callg>>

\* RCC->AHB2ENR |= RCC_AHB2ENR_GPIOAEN
GpioClock ==
  /\ Step("L34", "L35", Acc("AHB2ENR", "rw", {"GPIOAEN"}))
  /\ AHB2ENR' = AHB2ENR \cup {"GPIOAEN"}
  /\ UNCHANGED <<CCIPR, GPIOA, cfgv, dynv, swv, iov, initg, callg>>

\* GPIOA->MODER |= (3U << (ADC_PIN * 2))
GpioAnalog ==
  /\ Step("L35", "L36", Acc("MODER", "rw", {"MODER0"}))
  /\ GPIOA' = [GPIOA EXCEPT !.MODER0 = BitOr(@, 3)]
  /\ UNCHANGED <<AHB2ENR, CCIPR, cfgv, dynv, swv, iov, initg, callg>>

\* GPIOA->ASCR |= (1U << ADC_PIN)
GpioConnect ==
  /\ Step("L36", "L39", Acc("ASCR", "rw", {"ASC0"}))
  /\ GPIOA' = [GPIOA EXCEPT !.ASC0 = BitOr(@, 1)]
  /\ UNCHANGED <<AHB2ENR, CCIPR, cfgv, dynv, swv, iov, initg, callg>>

\* adc_init();
CallInit ==
  /\ Step("L39", "L70", NoAcc)
  /\ UNCHANGED <<sysv, cfgv, dynv, swv, iov, initg, callg>>

\* pinMode(PIN_SAMPLE, OUTPUT)
PinModeSample ==
  /\ Step("L42", "L43", NoAcc)
  /\ pinModes' = [pinModes EXCEPT !["D3"] = "OUTPUT"]
  /\ UNCHANGED <<sysv, cfgv, dynv, swv, out, serialUp, pinLevel, lastDelay, initg, callg>>

\* pinMode(PIN_SERIAL, OUTPUT)
PinModeSerial ==
  /\ Step("L43", "L51", NoAcc)
  /\ pinModes' = [pinModes EXCEPT !["D4"] = "OUTPUT"]
  /\ UNCHANGED <<sysv, cfgv, dynv, swv, out, serialUp, pinLevel, lastDelay, initg, callg>>

(***************************************************************************)
(* adc_init (lines 67-109)                                                 *)
(***************************************************************************)
\* line 70 setting the GPIOA enable bit instead of the ADC enable bit
AdcClockWrongBit ==
  /\ Step("L70", "L72", Acc("AHB2ENR", "rw", {"GPIOAEN"}))
  /\ AHB2ENR' = AHB2ENR \cup {"GPIOAEN"}
  /\ UNCHANGED <<CCIPR, GPIOA, cfgv, dynv, swv, iov, initg, callg>>

\* RCC->AHB2ENR |= RCC_AHB2ENR_ADCEN
AdcClock ==
  /\ Step("L70", "L72", Acc("AHB2ENR", "rw", {"ADCEN"}))
  /\ AHB2ENR' = AHB2ENR \cup {"ADCEN"}
  /\ UNCHANGED <<CCIPR, GPIOA, cfgv, dynv, swv, iov, initg, callg>>

\* RCC->CCIPR |= RCC_CCIPR_ADCSEL
AdcClockSel ==
  /\ Step("L72", "L75", Acc("CCIPR", "rw", {"ADCSEL"}))
  /\ CCIPR' = CCIPR \cup {"ADCSEL_0", "ADCSEL_1"}
  /\ UNCHANGED <<AHB2ENR, GPIOA, cfgv, dynv, swv, iov, initg, callg>>

\* ADC123_COMMON->CCR &= ~ADC_CCR_PRESC
PrescClear ==
  /\ Step("L75", "L76", Acc("CCR", "rw", {"PRESC"}))
  /\ CCR' = BitAndNot(CCR, ADC_CCR_PRESC)
  /\ UNCHANGED <<sysv, CFGR, SMPR1, SQR1, dynv, swv, iov, initg, callg>>

\* ADC123_COMMON->CCR |= ADC_CCR_PRESC_2
PrescSet ==
  /\ Step("L76", "L81", Acc("CCR", "rw", {"PRESC"}))
  /\ CCR' = BitOr(CCR, ADC_CCR_PRESC_2)
  /\ UNCHANGED <<sysv, CFGR, SMPR1, SQR1, dynv, swv, iov, initg, callg>>

\* if (ADC1->CR & ADC_CR_ADEN)
TestEnabled ==
  /\ Step("L81", IF "ADEN" \in CR THEN "L82" ELSE "L86", Acc("CR", "r", {"ADEN"}))
  /\ adenOnEntry' = ("ADEN" \in CR)
  /\ UNCHANGED <<sysv, cfgv, dynv, swv, iov, seen, disReq, calDone, callg>>

\* ADC1->CR |= ADC_CR_ADDIS
RequestDisable ==
  /\ Step("L82", "L83", Acc("CR", "rw", {"ADDIS"}))
  /\ CR' = CR \cup {"ADDIS"}
  /\ disReq' = TRUE
  /\ UNCHANGED <<sysv, cfgv, ISR, DR, hwRdy, swv, iov, seen, adenOnEntry, calDone, callg>>

\* line 83 without its wait: goes on while ADEN may still read 1
WaitDisabledNoPoll ==
  /\ Step("L83", "L86", Acc("CR", "r", {"ADEN"}))
  /\ UNCHANGED <<sysv, cfgv, dynv, swv, iov, initg, callg>>

\* while (ADC1->CR & ADC_CR_ADEN);  leaves the loop once ADEN reads 0
WaitDisabled ==
  /\ "ADEN" \notin CR
  /\ Step("L83", "L86", Acc("CR", "r", {"ADEN"}))
  /\ seen' = seen \cup {"ADEN0"}
  /\ UNCHANGED <<sysv, cfgv, dynv, swv, iov, adenOnEntry, disReq, calDone, callg>>

\* ADC1->CR &= ~ADC_CR_DEEPPWD
ClearDeepPwd ==
  /\ Step("L86", "L87", Acc("CR", "rw", {"DEEPPWD"}))
  /\ CR' = CR \ {"DEEPPWD"}
  /\ UNCHANGED <<sysv, cfgv, ISR, DR, hwRdy, swv, iov, initg, callg>>

\* ADC1->CR |= ADC_CR_ADVREGEN
EnableRegulator ==
  /\ Step("L87", "L90", Acc("CR", "rw", {"ADVREGEN"}))
  /\ CR' = CR \cup {"ADVREGEN"}
  /\ UNCHANGED <<sysv, cfgv, ISR, DR, hwRdy, swv, iov, initg, callg>>

\* for (volatile uint16_t i = 0; i < 1000; i++);  the loop has no body: it
\* counts i from n up to the limit and ends with i at the limit
SettleLoop(n) == IF n < SETTLE_LOOPS THEN SETTLE_LOOPS ELSE n

\* the settle delay of line 90, run to its end (nothing else changes meanwhile)
SettleDelay ==
  /\ Step("L90", "L92", NoAcc)
  /\ i' = SettleLoop(0)
  /\ UNCHANGED <<sysv, cfgv, dynv, isrTmp, channel, sample, iov, initg, callg>>

\* ADC1->CR |= ADC_CR_ADCAL
StartCalibration ==
  /\ Step("L92", "L93", Acc("CR", "rw", {"ADCAL"}))
  /\ CR' = CR \cup {"ADCAL"}
  /\ UNCHANGED <<sysv, cfgv, ISR, DR, hwRdy, swv, iov, initg, callg>>

\* line 93 without the poll: execution goes on while ADCAL is still set
WaitCalibratedNoPoll ==
  /\ Step("L93", "L96", Acc("CR", "r", {"ADCAL"}))
  /\ UNCHANGED <<sysv, cfgv, dynv, swv, iov, initg, callg>>

\* while (ADC1->CR & ADC_CR_ADCAL);  leaves the loop once ADCAL reads 0
WaitCalibrated ==
  /\ "ADCAL" \notin CR
  /\ Step("L93", "L96", Acc("CR", "r", {"ADCAL"}))
  /\ seen' = seen \cup {"ADCAL0"}
  /\ UNCHANGED <<sysv, cfgv, dynv, swv, iov, adenOnEntry, disReq, calDone, callg>>

\* ADC1->CFGR &= ~ADC_CFGR_CONT
ClearCont ==
  /\ Step("L96", "L97", Acc("CFGR", "rw", {"CONT"}))
  /\ CFGR' = BitAndNot(CFGR, ADC_CFGR_CONT)
  /\ UNCHANGED <<sysv, CCR, SMPR1, SQR1, dynv, swv, iov, initg, callg>>

\* ADC1->CFGR &= ~ADC_CFGR_RES
ClearRes ==
  /\ Step("L97", "L100", Acc("CFGR", "rw", {"RES"}))
  /\ CFGR' = BitAndNot(CFGR, ADC_CFGR_RES)
  /\ UNCHANGED <<sysv, CCR, SMPR1, SQR1, dynv, swv, iov, initg, callg>>

\* ADC1->SMPR1 &= ~(7U << (ADC_CHANNEL * 3))
ClearSampTime ==
  /\ Step("L100", "L101", Acc("SMPR1", "rw", {"SMP5"}))
  /\ SMPR1' = BitAndNot(SMPR1, Shl(SMP_FIELD, SmpPos(ADC_CHANNEL)))
  /\ UNCHANGED <<sysv, CCR, CFGR, SQR1, dynv, swv, iov, initg, callg>>

\* ADC1->SMPR1 |= (SAMP_TIME << (ADC_CHANNEL * 3))
SetSampTime ==
  /\ Step("L101", "L104", Acc("SMPR1", "rw", {"SMP5"}))
  /\ SMPR1' = BitOr(SMPR1, Shl(SAMP_TIME, SmpPos(ADC_CHANNEL)))
  /\ UNCHANGED <<sysv, CCR, CFGR, SQR1, dynv, swv, iov, initg, callg>>

\* line 104 with the mask of the SQ1 field instead of ADC_SQR1_L
ClearSeqLenWrongMask ==
  /\ Step("L104", "L107", Acc("SQR1", "rw", {"SQ1"}))
  /\ SQR1' = BitAndNot(SQR1, Shl(SQ1_FIELD, SQ1_POS))
  /\ UNCHANGED <<sysv, CCR, CFGR, SMPR1, dynv, swv, iov, initg, callg>>

\* ADC1->SQR1 &= ~ADC_SQR1_L
ClearSeqLen ==
  /\ Step("L104", "L107", Acc("SQR1", "rw", {"L"}))
  /\ SQR1' = BitAndNot(SQR1, ADC_SQR1_L)
  /\ UNCHANGED <<sysv, CCR, CFGR, SMPR1, dynv, swv, iov, initg, callg>>

\* ADC1->CR |= ADC_CR_ADEN
EnableAdc ==
  /\ Step("L107", "L108", Acc("CR", "rw", {"ADEN"}))
  /\ CR' = CR \cup {"ADEN"}
  /\ UNCHANGED <<sysv, cfgv, ISR, DR, hwRdy, swv, iov, initg, callg>>

\* line 108 without its wait: falls through whatever ADRDY reads
WaitReadyNoPoll ==
  /\ Step("L108", "L109", NoAcc)
  /\ UNCHANGED <<sysv, cfgv, dynv, swv, iov, initg, callg>>

\* while (!(ADC1->ISR & ADC_ISR_ADRDY));  leaves the loop once ADRDY reads 1
WaitReady ==
  /\ "ADRDY" \in ISR
  /\ Step("L108", "L109", Acc("ISR", "r", {"ADRDY"}))
  /\ seen' = seen \cup {"ADRDY1"}
  /\ UNCHANGED <<sysv, cfgv, dynv, swv, iov, adenOnEntry, disReq, calDone, callg>>

\* return from adc_init to main line 42
InitReturn ==
  /\ Step("L109", "L42", NoAcc)
  /\ UNCHANGED <<sysv, cfgv, dynv, swv, iov, initg, callg>>

AdcInit ==
  \/ AdcClock \/ AdcClockSel \/ PrescClear \/ PrescSet
  \/ TestEnabled \/ RequestDisable \/ WaitDisabled
  \/ ClearDeepPwd \/ EnableRegulator \/ SettleDelay
  \/ StartCalibration \/ WaitCalibrated
  \/ ClearCont \/ ClearRes \/ ClearSampTime \/ SetSampTime \/ ClearSeqLen
  \/ EnableAdc \/ WaitReady \/ InitReturn

(***************************************************************************)
(* adc_read (lines 115-129)                                                *)
(***************************************************************************)
\* sample = adc_read(channel): the call, with the argument drawn from chs
CallRead(chs) ==
  /\ iter < MaxIter
  /\ Step("L51", "L116", NoAcc)
  /\ \E ch \in chs : channel' = ch
  /\ eocAck' = FALSE
  /\ started' = FALSE
  /\ UNCHANGED <<sysv, cfgv, dynv, i, isrTmp, sample, iov, initg, fresh, convVal, samples, iter>>

\* digitalWrite(PIN_SAMPLE, HIGH)
ProbeHigh ==
  /\ Step("L116", "L119", NoAcc)
  /\ pinLevel' = [pinLevel EXCEPT !["D3"] = "HIGH"]
  /\ UNCHANGED <<sysv, cfgv, dynv, swv, out, serialUp, pinModes, lastDelay, initg, callg>>

\* line 119 left out: the old channel is not cleared before the OR of line 120
ClearSq1Skipped ==
  /\ Step("L119", "L120", NoAcc)
  /\ UNCHANGED <<sysv, cfgv, dynv, swv, iov, initg, callg>>

\* ADC1->SQR1 &= ~(0x1FU << 6)
ClearSq1 ==
  /\ Step("L119", "L120", Acc("SQR1", "rw", {"SQ1"}))
  /\ SQR1' = BitAndNot(SQR1, Shl(SQ1_FIELD, SQ1_POS))
  /\ UNCHANGED <<sysv, CCR, CFGR, SMPR1, dynv, swv, iov, initg, callg>>

\* line 120 with the entry shifted to bit 7: ADC1->SQR1 |= (channel << 7)
SetSq1Shift7 ==
  /\ Step("L120", "L122", Acc("SQR1", "rw", {"SQ1"}))
  /\ SQR1' = BitOr(SQR1, Shl(channel, SQ1_POS + 1))
  /\ UNCHANGED <<sysv, CCR, CFGR, SMPR1, dynv, swv, iov, initg, callg>>

\* ADC1->SQR1 |= (channel << 6)
SetSq1 ==
  /\ Step("L120", "L122", Acc("SQR1", "rw", {"SQ1"}))
  /\ SQR1' = BitOr(SQR1, Shl(channel, SQ1_POS))
  /\ UNCHANGED <<sysv, CCR, CFGR, SMPR1, dynv, swv, iov, initg, callg>>

\* ADC1->ISR |= ADC_ISR_EOC, first half: the read of ISR
AckRead ==
  /\ Step("L122", "L122w", Acc("ISR", "r", {"EOC"}))
  /\ isrTmp' = ISR
  /\ UNCHANGED <<sysv, cfgv, dynv, i, channel, sample, iov, initg, callg>>

\* the flags left in ISR when value val is written to it: every flag is
\* write-1-to-clear, so each flag written as 1 is cleared
WriteISR(isr, val) == isr \ val

\* line 122 written as ISR &= ~ADC_ISR_EOC: EOC is written as 0, which does
\* not clear a write-1-to-clear flag
AckWriteAndNot ==
  /\ Step("L122w", "L123", Acc("ISR", "w", {"EOC"}))
  /\ ISR' = WriteISR(ISR, isrTmp \ {"EOC"})
  /\ eocAck' = TRUE
  /\ UNCHANGED <<sysv, cfgv, CR, DR, hwRdy, swv, iov, initg, started, fresh, convVal, samples, iter>>

\* line 122 left out: no acknowledge is written
AckWriteSkipped ==
  /\ Step("L122w", "L123", NoAcc)
  /\ UNCHANGED <<sysv, cfgv, dynv, swv, iov, initg, callg>>

\* line 122 written as ISR = ADC_ISR_EOC: only the EOC bit is written as 1
AckWriteEocOnly ==
  /\ Step("L122w", "L123", Acc("ISR", "w", {"EOC"}))
  /\ ISR' = WriteISR(ISR, {"EOC"})
  /\ eocAck' = TRUE
  /\ UNCHANGED <<sysv, cfgv, CR, DR, hwRdy, swv, iov, initg, started, fresh, convVal, samples, iter>>

\* ADC1->ISR |= ADC_ISR_EOC, second half: the write of (value read | EOC)
AckWrite ==
  /\ Step("L122w", "L123", Acc("ISR", "w", {"EOC"}))
  /\ ISR' = WriteISR(ISR, isrTmp \cup {"EOC"})
  /\ eocAck' = TRUE
  /\ UNCHANGED <<sysv, cfgv, CR, DR, hwRdy, swv, iov, initg, started, fresh, convVal, samples, iter>>

\* line 123 setting the injected-group start bit instead of ADSTART
StartWrongBit ==
  /\ Step("L123", "L124", Acc("CR", "rw", {"JADSTART"}))
  /\ CR' = CR \cup {"JADSTART"}
  /\ UNCHANGED <<sysv, cfgv, ISR, DR, hwRdy, swv, iov, initg, callg>>

\* ADC1->CR |= ADC_CR_ADSTART
StartConversion ==
  /\ Step("L123", "L124", Acc("CR", "rw", {"ADSTART"}))
  /\ CR' = CR \cup {"ADSTART"}
  /\ started' = TRUE
  /\ fresh' = FALSE
  /\ UNCHANGED <<sysv, cfgv, ISR, DR, hwRdy, swv, iov, initg, eocAck, convVal, samples, iter>>

\* line 124 without its wait: goes on whatever EOC reads
WaitEocNoPoll ==
  /\ Step("L124", "L126", Acc("ISR", "r", {"EOC"}))
  /\ UNCHANGED <<sysv, cfgv, dynv, swv, iov, initg, callg>>

\* while (!(ADC1->ISR & ADC_ISR_EOC));  leaves the loop once EOC reads 1
WaitEoc ==
  /\ "EOC" \in ISR
  /\ Step("L124", "L126", Acc("ISR", "r", {"EOC"}))
  /\ UNCHANGED <<sysv, cfgv, dynv, swv, iov, initg, callg>>

\* line 126 left out: the probe is not driven low
ProbeLowSkipped ==
  /\ Step("L126", "L128", NoAcc)
  /\ UNCHANGED <<sysv, cfgv, dynv, swv, iov, initg, callg>>

\* digitalWrite(PIN_SAMPLE, LOW)
ProbeLow ==
  /\ Step("L126", "L128", NoAcc)
  /\ pinLevel' = [pinLevel EXCEPT !["D3"] = "LOW"]
  /\ UNCHANGED <<sysv, cfgv, dynv, swv, out, serialUp, pinModes, lastDelay, initg, callg>>

\* (uint16_t)ADC1->DR
ReadDR(dr) == dr % UINT16_MOD

\* return (uint16_t)ADC1->DR, assigned to sample by line 51.  The hardware
\* may take the read of DR as an acknowledge of EOC.
ReturnSample ==
  /\ Step("L128", "L53", Acc("DR", "r", {"RDATA"}))
  /\ sample' = ReadDR(DR)
  /\ samples' = Append(samples, ReadDR(DR))
  /\ \E clr \in BOOLEAN : ISR' = IF clr THEN ISR \ {"EOC"} ELSE ISR
  /\ UNCHANGED <<sysv, cfgv, CR, DR, hwRdy, i, isrTmp, channel, iov, initg, eocAck, started, fresh, convVal, iter>>

AdcRead ==
  \/ ProbeHigh \/ ClearSq1 \/ SetSq1 \/ AckRead \/ AckWrite
  \/ StartConversion \/ WaitEoc \/ ProbeLow \/ ReturnSample

(***************************************************************************)
(* main: framing and pacing (lines 52-59)                                  *)
(***************************************************************************)
\* (uint8_t)(sample & 0xFF)
LowByte(s) == BitAnd(s, 255) % UINT8_MOD

\* the high byte taken with a shift of 4 instead of 8
HighByteShift4(s) == Shr(s, 4) % UINT8_MOD

\* (uint8_t)(sample >> 8)
HighByte(s) == Shr(s, 8) % UINT8_MOD

\* Serial.write(b) at line `from`
SerialWrite(from, to, b) ==
  /\ Step(from, to, NoAcc)
  /\ out' = Append(out, b)
  /\ UNCHANGED <<sysv, cfgv, dynv, swv, serialUp, pinModes, pinLevel, lastDelay, initg, callg>>

\* digitalWrite(PIN_SERIAL, HIGH)
SerialProbeHigh ==
  /\ Step("L53", "L54", NoAcc)
  /\ pinLevel' = [pinLevel EXCEPT !["D4"] = "HIGH"]
  /\ UNCHANGED <<sysv, cfgv, dynv, swv, out, serialUp, pinModes, lastDelay, initg, callg>>

\* Serial.write(0xAA)
WriteSync1 == SerialWrite("L54", "L55", SYNC_BYTE)

\* line 55 left out: one sync byte only
WriteSync2Skipped ==
  /\ Step("L55", "L56", NoAcc)
  /\ UNCHANGED <<sysv, cfgv, dynv, swv, iov, initg, callg>>

\* Serial.write(0xAA)
WriteSync2 == SerialWrite("L55", "L56", SYNC_BYTE)

\* Serial.write((uint8_t)(sample & 0xFF))
WriteLow == SerialWrite("L56", "L57", LowByte(sample))

\* Serial.write((uint8_t)(sample >> 8))
WriteHigh == SerialWrite("L57", "L58", HighByte(sample))

\* digitalWrite(PIN_SERIAL, LOW)
SerialProbeLow ==
  /\ Step("L58", "L59", NoAcc)
  /\ pinLevel' = [pinLevel EXCEPT !["D4"] = "LOW"]
  /\ UNCHANGED <<sysv, cfgv, dynv, swv, out, serialUp, pinModes, lastDelay, initg, callg>>

\* line 59 passing the rate instead of the period: delayMicroseconds(SAMP_RATE)
SampleDelayRate ==
  /\ Step("L59", "L51", NoAcc)
  /\ lastDelay' = SAMP_RATE
  /\ iter' = iter + 1
  /\ UNCHANGED <<sysv, cfgv, dynv, swv, out, serialUp, pinModes, pinLevel, initg, eocAck, started, fresh, convVal, samples>>

\* delayMicroseconds(SAMP_PERIOD); back to the loop head
SampleDelay ==
  /\ Step("L59", "L51", NoAcc)
  /\ lastDelay' = SAMP_PERIOD
  /\ iter' = iter + 1
  /\ UNCHANGED <<sysv, cfgv, dynv, swv, out, serialUp, pinModes, pinLevel, initg, eocAck, started, fresh, convVal, samples>>

Framing ==
  \/ SerialProbeHigh \/ WriteSync1 \/ WriteSync2 \/ WriteLow \/ WriteHigh
  \/ SerialProbeLow \/ SampleDelay

MainStart ==
  \/ MainSetup \/ GpioClock \/ GpioAnalog \/ GpioConnect \/ CallInit
  \/ PinModeSample \/ PinModeSerial

(***************************************************************************)
(* Specifications                                                          *)
(***************************************************************************)
\* sample = adc_read(ADC_CHANNEL)
MainCallRead == CallRead({ADC_CHANNEL})

\* the program: main as written, with the ADC hardware
Next == MainStart \/ AdcInit \/ MainCallRead \/ AdcRead \/ Framing \/ Hardware

Spec == Init /\ [][Next]_vars

\* adc_read called with any channel argument of the harness
DriverCallRead == CallRead(Channels)

\* the driver harness: main's loop with the channel argument varied
DriverNext == MainStart \/ AdcInit \/ DriverCallRead \/ AdcRead \/ Framing \/ Hardware

DriverSpec == Init /\ [][DriverNext]_vars

(***************************************************************************)
(* State of the converter, read off the registers (spec section 3), and    *)
(* the events the properties speak about                                   *)
(***************************************************************************)
\* Enabling is the interval between the write of ADEN and the hardware's ready
ConverterState ==
  IF "ADCAL" \in CR THEN "Calibrating"
  ELSE IF "ADEN" \notin CR THEN "Disabled"
  ELSE IF ~hwRdy THEN "Enabling"
  ELSE IF "ADSTART" \in CR THEN "Converting"
  ELSE "Ready"

\* the step that led here wrote bit b of CR
WroteCR(b) == acc.reg = "CR" /\ Writes(acc) /\ b \in acc.bits
\* the step that led here wrote SQR1
WroteSQR1 == acc.reg = "SQR1" /\ Writes(acc)
\* adc_init's wait for ADRDY (line 108) has completed
ReadySeen == "ADRDY1" \in seen
\* the fields of the registers
SeqLen == Field(SQR1, ADC_SQR1_L, 0)
Sq1 == Field(SQR1, Shl(SQ1_FIELD, SQ1_POS), SQ1_POS)
Smp5 == Field(SMPR1, Shl(SMP_FIELD, SmpPos(ADC_CHANNEL)), SmpPos(ADC_CHANNEL))
ModeConfigured ==
  /\ BitAnd(CFGR, ADC_CFGR_CONT) = 0
  /\ BitAnd(CFGR, ADC_CFGR_RES) = 0
  /\ SeqLen = 0
  /\ Smp5 = SAMP_TIME
\* lines of main after an adc_read call has returned, before the next call
AfterReturn == pc \in {"L53", "L54", "L55", "L56", "L57", "L58", "L59"}

(***************************************************************************)
(* C1                                                                      *)
(***************************************************************************)
\* C1: ADSTART is written (and is set) only after adc_init has observed ADCAL
\* clear and ADRDY set; at that point the converter is neither Disabled nor
\* Calibrating.
C1_StartOnlyAfterReady ==
  (WroteCR("ADSTART") \/ "ADSTART" \in CR) =>
     /\ "ADCAL0" \in seen
     /\ ReadySeen
     /\ ConverterState \notin {"Disabled", "Calibrating"}

C1_Witness == WroteCR("ADSTART") /\ adenOnEntry /\ iter = 1

(***************************************************************************)
(* C2                                                                      *)
(***************************************************************************)
\* C2 as stated: no write to SQR1 and no write of the start bit occurs before
\* adc_init's wait for ADRDY has completed.
C2_NoSqr1WriteBeforeReady ==
  (WroteSQR1 \/ WroteCR("ADSTART")) => ReadySeen

\* C2 amended: before the wait for ADRDY has completed there is no write of
\* the start bit and no write of the SQ1 channel field; the only change made
\* to SQR1 before that is adc_init clearing the length field L (line 104).
C2_OnlySeqLenBeforeReady ==
  /\ [](((WroteSQR1 /\ "SQ1" \in acc.bits) \/ WroteCR("ADSTART")) => ReadySeen)
  /\ []((WroteSQR1 /\ ~ReadySeen) => (acc.bits = {"L"} /\ pc = "L107"))
  /\ [][~ReadySeen' =>
          BitAndNot(SQR1', ADC_SQR1_L) = BitAndNot(SQR1, ADC_SQR1_L)]_vars

C2_Witness == WroteSQR1 /\ "SQ1" \in acc.bits /\ ReadySeen /\ Sq1 = ADC_CHANNEL

(***************************************************************************)
(* C3                                                                      *)
(***************************************************************************)
\* C3: in every adc_read call the EOC acknowledge is written before ADSTART
\* (EOC reads clear when the start bit is written) and ADSTART is written
\* before the wait on EOC begins.
C3_ClearBeforeStart ==
  /\ WroteCR("ADSTART") => (eocAck /\ "EOC" \notin ISR)
  /\ started => eocAck
  /\ pc = "L124" => started

C3_Witness == WroteCR("ADSTART") /\ eocAck /\ iter = 1

(***************************************************************************)
(* C4                                                                      *)
(***************************************************************************)
\* C4: an adc_read call leaves its wait only after the hardware has completed
\* a conversion started by that call's own ADSTART write, and the value it
\* returns is the DR content of that conversion, also when EOC was left set
\* before the call.
C4_FreshSample ==
  /\ pc \in {"L126", "L128"} => (started /\ fresh)
  /\ AfterReturn =>
       /\ fresh
       /\ sample = convVal % UINT16_MOD
       /\ samples[Len(samples)] = sample

C4_Witness ==
  /\ pc = "L53" /\ Len(samples) = 2
  /\ samples[1] # samples[2]
  /\ sample = samples[2]

(***************************************************************************)
(* C5  (DriverSpec: adc_read called with varying channel arguments)        *)
(***************************************************************************)
\* the current or latest adc_read call has written the channel into SQR1
ChannelWritten ==
  \/ pc \in {"L122", "L122w", "L123", "L124", "L126", "L128"}
  \/ AfterReturn
  \/ (pc = "L51" /\ iter > 0)

\* C5: after adc_init and any number of adc_read(channel) calls, SQR1.L is 0
\* (one conversion) and SQR1.SQ1 is the channel of the latest call, for every
\* channel the 5-bit SQ1 field can hold.
C5_SingleEntrySequence ==
  /\ ReadySeen => SeqLen = 0
  /\ (ChannelWritten /\ channel <= SQ1_FIELD) => Sq1 = channel

\* a call with channel 0 after a call with channel 37 (whose bit 5 is still in
\* SQR1 bit 11)
C5_Witness ==
  /\ pc = "L53" /\ iter = 1 /\ channel = 0
  /\ BitAnd(SQR1, Shl(1, 11)) # 0
  /\ Sq1 = 0 /\ SeqLen = 0

(***************************************************************************)
(* C6  (FrameSpec: the framing lines 53-59 applied to every sample value)  *)
(***************************************************************************)
FrameInit ==
  /\ pc = "L53"
  /\ acc = Acc("DR", "r", {"RDATA"})
  /\ sample \in 0..SampleMax
  /\ samples = <<sample>>
  /\ DR = sample
  /\ convVal = sample
  /\ CR = {"ADVREGEN", "ADEN"}
  /\ ISR = {"ADRDY", "EOC", "EOS"}
  /\ CFGR = 0
  /\ SMPR1 = 0
  /\ SQR1 = Shl(ADC_CHANNEL, SQ1_POS)
  /\ CCR = ADC_CCR_PRESC_2
  /\ AHB2ENR = {"GPIOAEN", "ADCEN"}
  /\ CCIPR = {"ADCSEL_0", "ADCSEL_1"}
  /\ GPIOA = [MODER0 |-> 3, ASC0 |-> 1]
  /\ hwRdy = TRUE
  /\ i = SETTLE_LOOPS
  /\ isrTmp = {}
  /\ channel = ADC_CHANNEL
  /\ out = <<>>
  /\ serialUp = TRUE
  /\ pinModes = [p \in {"D3", "D4"} |-> "OUTPUT"]
  /\ pinLevel = [p \in {"D3", "D4"} |-> "LOW"]
  /\ lastDelay = 0
  /\ iter = 0
  /\ seen = {"ADCAL0", "ADRDY1"}
  /\ adenOnEntry = FALSE
  /\ disReq = FALSE
  /\ calDone = TRUE
  /\ eocAck = TRUE
  /\ started = TRUE
  /\ fresh = TRUE

FrameSpec == FrameInit /\ [][Framing]_vars

\* C6: for every sample in 0..4095 the loop emits exactly the four bytes
\* 0xAA, 0xAA, low, high with low = sample mod 256, high = sample div 256 and
\* low | (high << 8) = sample; 0x0000 gives AA AA 00 00, 0x0FFF gives AA AA FF 0F.
C6_FrameShape ==
  /\ Len(out) <= 4
  /\ pc \in {"L58", "L59", "L51"} =>
       /\ out = <<170, 170, sample % 256, sample \div 256>>
       /\ out[3] \in 0..255 /\ out[4] \in 0..255
       /\ BitOr(out[3], Shl(out[4], 8)) = sample
       /\ sample = 0 => out = <<170, 170, 0, 0>>
       /\ sample = 4095 => out = <<170, 170, 255, 15>>

C6_Witness == pc = "L58" /\ sample = 4095 /\ out = <<170, 170, 255, 15>>

(***************************************************************************)
(* C7                                                                      *)
(***************************************************************************)
RECURSIVE Frames(_)
\* the frames of a sequence of samples, concatenated
Frames(ss) ==
  IF ss = <<>> THEN <<>>
  ELSE <<170, 170, Head(ss) % 256, Head(ss) \div 256>> \o Frames(Tail(ss))

\* C7: after n completed loop iterations the sink holds exactly 4n bytes, the
\* frames of the n values adc_read returned, in order; each conversion is of
\* channel 5; at every moment the sink holds a prefix of those frames.
C7_OneFramePerSample ==
  /\ Len(out) <= Len(Frames(samples))
  /\ out = SubSeq(Frames(samples), 1, Len(out))
  /\ pc = "L51" =>
       /\ Len(samples) = iter
       /\ Len(out) = 4 * iter
       /\ out = Frames(samples)
  /\ AfterReturn => (Len(samples) = iter + 1 /\ Len(out) >= 4 * iter)
  /\ "ADSTART" \in CR => (channel = ADC_CHANNEL /\ Sq1 = ADC_CHANNEL)

\* two iterations; the second returned raw 2048 and its frame is AA AA 00 08
C7_Witness ==
  /\ pc = "L51" /\ iter = 2
  /\ samples[2] = 2048 /\ samples[1] # 2048
  /\ SubSeq(out, 5, 8) = <<170, 170, 0, 8>>

(***************************************************************************)
(* C8                                                                      *)
(***************************************************************************)
\* C8: ADCAL is written (and is set) only while ADEN is clear; if the
\* converter was enabled on entry, a disable was requested and ADEN was
\* observed clear before ADCAL is written.
C8_CalibrateOnlyDisabled ==
  (WroteCR("ADCAL") \/ "ADCAL" \in CR) =>
     /\ "ADEN" \notin CR
     /\ adenOnEntry => (disReq /\ "ADEN0" \in seen)

C8_Witness == WroteCR("ADCAL") /\ adenOnEntry /\ "ADCAL" \in CR

(***************************************************************************)
(* C9                                                                      *)
(***************************************************************************)
\* C9: when adc_init returns, the hardware has asserted ready after this
\* call's enable: the converter is enabled and ready, calibration has
\* completed, and the mode is single-shot, 12-bit, sequence length one, with
\* the sample time of channel 5 equal to SAMP_TIME.
C9_ReadyOnReturn ==
  pc = "L109" =>
     /\ "ADEN" \in CR
     /\ hwRdy
     /\ ConverterState = "Ready"
     /\ calDone /\ "ADCAL0" \in seen
     /\ ModeConfigured

(***************************************************************************)
(* C10                                                                     *)
(***************************************************************************)
\* C10: adc_init's steps happen in order: the ADC clock is enabled before any
\* ADC register is accessed; deep power down is cleared, the regulator is on
\* and the settle delay has run before ADCAL is written; the mode registers
\* are written only after calibration has completed; ADEN is written only
\* after the mode is configured.
C10_InitOrder ==
  /\ acc.reg \in ADCRegs => "ADCEN" \in AHB2ENR
  /\ WroteCR("ADCAL") =>
       ("DEEPPWD" \notin CR /\ "ADVREGEN" \in CR /\ i = SETTLE_LOOPS)
  /\ (acc.reg \in {"CFGR", "SMPR1", "SQR1"} /\ Writes(acc)) =>
       ("ADCAL0" \in seen /\ calDone /\ "ADCAL" \notin CR)
  /\ WroteCR("ADEN") => (ModeConfigured /\ "ADCAL0" \in seen)

\* the enable is written on a converter that came out of reset: clock off
\* and deep power down on entry, calibrated by this call
C10_Witness ==
  /\ WroteCR("ADEN") /\ pc = "L108" /\ calDone /\ ~adenOnEntry
  /\ ISR = {} /\ ~disReq

(***************************************************************************)
(* C11                                                                     *)
(***************************************************************************)
\* C11: from the write of ADSTART until EOC is observed the firmware does
\* nothing: while adc_read waits at line 124 no byte is written to the sink,
\* no delay runs and no register is accessed by the firmware; while EOC reads
\* clear the program stays at line 124, and it leaves the wait only to line
\* 126, with EOC set by the hardware for this call's conversion.
C11_NothingWhileConverting ==
  /\ [][(pc = "L124" /\ pc' = "L124") =>
          /\ out' = out /\ lastDelay' = lastDelay /\ iter' = iter
          /\ acc' = NoAcc
          /\ cfgv' = cfgv /\ sysv' = sysv /\ swv' = swv]_vars
  /\ [][(pc = "L124" /\ "EOC" \notin ISR) => pc' = "L124"]_vars
  /\ [][(pc = "L124" /\ pc' # "L124") =>
          /\ pc' = "L126"
          /\ "EOC" \in ISR /\ fresh
          /\ out' = out /\ lastDelay' = lastDelay
          /\ ~Writes(acc')]_vars

\* the second call waits with its conversion not yet completed, the first
\* frame in the sink
C11_Witness ==
  /\ pc = "L124" /\ "ADSTART" \in CR /\ "EOC" \notin ISR /\ ~fresh
  /\ iter = 1 /\ Len(out) = 4

(***************************************************************************)
(* C12  (LiveSpec: the endless loop, with fairness)                        *)
(***************************************************************************)
\* delayMicroseconds(SAMP_PERIOD); back to the loop head.  The sink has taken
\* the frame: the record of bytes and samples is emptied and iterations are
\* not counted, so that the endless loop of line 49 has finitely many states.
SampleDelayForget ==
  /\ Step("L59", "L51", NoAcc)
  /\ lastDelay' = SAMP_PERIOD
  /\ out' = <<>>
  /\ samples' = <<>>
  /\ UNCHANGED <<sysv, cfgv, dynv, swv, serialUp, pinModes, pinLevel, initg, eocAck, started, fresh, convVal, iter>>

LiveFraming ==
  \/ SerialProbeHigh \/ WriteSync1 \/ WriteSync2 \/ WriteLow \/ WriteHigh
  \/ SerialProbeLow \/ SampleDelayForget

\* the steps of the firmware (the processor keeps executing)
Software == MainStart \/ AdcInit \/ MainCallRead \/ AdcRead \/ LiveFraming

LiveNext == Software \/ Hardware

\* the processor always executes its next statement, and the hardware
\* eventually answers each request that stays pending
LiveSpec ==
  /\ Init
  /\ [][LiveNext]_vars
  /\ WF_vars(Software)
  /\ WF_vars(HwDisable)
  /\ WF_vars(HwCalDone)
  /\ WF_vars(HwReady)
  /\ WF_vars(HwConvDone)

\* C12: if the hardware eventually satisfies every awaited condition, adc_init
\* returns, every adc_read call returns, and complete frames are emitted
\* again and again.
C12_Progress ==
  /\ <>(pc = "L42")
  /\ [](pc = "L116" => <>(pc = "L53"))
  /\ []<>(pc = "L58" /\ Len(out) = 4)

\* an iteration has completed and the loop is back at its head, after an
\* adc_init that had to disable the converter first
C12_Witness ==
  /\ pc = "L51" /\ lastDelay = SAMP_PERIOD /\ out = <<>>
  /\ adenOnEntry /\ "ADEN0" \in seen

(***************************************************************************)
(* C13                                                                     *)
(***************************************************************************)
\* C13: every value adc_read returns is a 12-bit magnitude in 0..4095, equal
\* to the content of DR at the read.
C13_TwelveBitSample ==
  AfterReturn => (sample \in 0..4095 /\ sample = DR)

(***************************************************************************)
(* C14                                                                     *)
(***************************************************************************)
\* lines of adc_read at which the probe has been driven high and not yet low
ProbeWindow == pc \in {"L119", "L120", "L122", "L122w", "L123", "L124", "L126"}
\* lines of an executing adc_read call
InRead == ProbeWindow \/ pc \in {"L116", "L128"}

\* C14: PIN_SAMPLE is high from the first statement of adc_read, before any
\* ADC register access of the call, through the wait for EOC, and is driven
\* low after EOC is observed and before DR is read; it is low whenever no
\* adc_read call executes; it is driven only once it is an output.
C14_SampleProbe ==
  /\ ProbeWindow => pinLevel["D3"] = "HIGH"
  /\ ~ProbeWindow => pinLevel["D3"] = "LOW"
  /\ (InRead /\ acc.reg \in ADCRegs /\ acc.reg # "DR") => pinLevel["D3"] = "HIGH"
  /\ acc.reg = "DR" => (pinLevel["D3"] = "LOW" /\ fresh)
  /\ (InRead \/ pinLevel["D3"] = "HIGH") => pinModes["D3"] = "OUTPUT"

\* the second call waits for its conversion with the probe high
C14_Witness ==
  /\ pc = "L124" /\ iter = 1 /\ "EOC" \notin ISR
  /\ pinLevel["D3"] = "HIGH" /\ pinModes["D3"] = "OUTPUT"

(***************************************************************************)
(* C15                                                                     *)
(***************************************************************************)
\* bytes of the current iteration's frame already written at line pc
FrameBytesAt ==
  CASE pc = "L55" -> 1
    [] pc = "L56" -> 2
    [] pc = "L57" -> 3
    [] pc \in {"L58", "L59"} -> 4
    [] OTHER -> 0

WroteISR == acc.reg = "ISR" /\ acc.op = "w"

\* C16 as stated: the acknowledge of line 122 clears only EOC; every other
\* flag that was set before it, ADRDY in particular, is still set after it.
C16_OnlyEocCleared ==
  WroteISR => ("EOC" \notin ISR /\ (isrTmp \ {"EOC"}) \subseteq ISR)

\* C16 amended: the acknowledge writes back every flag it read as set, so it
\* clears EOC and every other flag that read as set (ADRDY, EOS); it clears
\* nothing else.
C16_AckClearsFlagsRead ==
  /\ [](WroteISR => ISR \cap (isrTmp \cup {"EOC"}) = {})
  /\ [](WroteISR /\ "ADRDY" \in isrTmp => "ADRDY" \notin ISR)
  /\ [][(pc = "L122w" /\ pc' = "L123") =>
          (ISR \ (isrTmp \cup {"EOC"})) \subseteq ISR']_vars

\* the first acknowledge has cleared the ADRDY that adc_init waited for
C16_Witness ==
  /\ WroteISR /\ iter = 0 /\ ReadySeen
  /\ "ADRDY" \in isrTmp /\ "ADRDY" \notin ISR /\ "EOC" \notin ISR

(***************************************************************************)
(* C17  (DriverSpec: adc_read called with channels 0, 5, 31 and 37)        *)
(***************************************************************************)
\* the bits of a SQR1 value outside the SQ1 field (bits 6..10)
OutsideSq1(r) == BitAndNot(r, Shl(SQ1_FIELD, SQ1_POS))

\* the two SQR1 writes of adc_read are about to run
AtSq1Write == pc \in {"L119", "L120"}

\* C17 as stated: for every channel 0..255 the SQR1 writes of adc_read change
\* only bits 6..10.
C17_OnlySq1Changes ==
  [][AtSq1Write => OutsideSq1(SQR1') = OutsideSq1(SQR1)]_vars

\* C17 amended: for every channel the length field is unchanged; for every
\* channel 0..31 the SQR1 writes of adc_read change only bits 6..10 and leave
\* the channel in them, whatever an earlier call wrote there.
C17_OnlySq1ChangesInRange ==
  /\ [][AtSq1Write => Field(SQR1', ADC_SQR1_L, 0) = Field(SQR1, ADC_SQR1_L, 0)]_vars
  /\ [][(AtSq1Write /\ channel <= SQ1_FIELD) =>
          OutsideSq1(SQR1') = OutsideSq1(SQR1)]_vars
  /\ []((ChannelWritten /\ channel <= SQ1_FIELD) =>
          SQR1 = OutsideSq1(SQR1) + Shl(channel, SQ1_POS))

\* a call with channel 31 has written its entry after a call with channel 37,
\* whose bit 5 is still in SQR1 bit 11
C17_Witness ==
  /\ pc = "L122" /\ WroteSQR1 /\ iter = 1 /\ channel = 31
  /\ BitAnd(SQR1, Shl(1, 11)) # 0
  /\ Sq1 = 31

(***************************************************************************)
(* C18                                                                     *)
(***************************************************************************)
\* a conversion is in flight: ADSTART is set and adc_read has not yet seen
\* its EOC at line 124
InFlight == "ADSTART" \in CR
\* the step that led here wrote CFGR, SMPR1 or SQR1
WroteConfig == acc.reg \in {"CFGR", "SMPR1", "SQR1"} /\ Writes(acc)
\* before, between and after the configuration writes of adc_init (lines
\* 96-104), up to the enable of line 107
InInitConfig == pc \in {"L96", "L97", "L100", "L101", "L104", "L107"}

====
